---- MODULE Spec2Model ----
(***************************************************************************)
(* A model of overwrite.go: Overwrite(obj, keystr, value) compiles a path  *)
(* string into a chain of keys (parseKey) and applies the chain to a value *)
(* tree through reflection (terminalKey/fieldKey/indexKey .apply).         *)
(*                                                                         *)
(* Strings are sequences of one-character strings.  A key chain is the     *)
(* sequence of its steps; the empty sequence is terminalKey{} and Tail(k)  *)
(* is k.subkey.  A reflect.Value is a pair (value, settable) and the Go    *)
(* heap (map objects, slice backing arrays, pointer targets) is a sequence *)
(* of objects addressed by position.                                       *)
(***************************************************************************)
EXTENDS Integers, Sequences, FiniteSets, TLC

\* ------------------------------------------------------------------------
\* Bounds of the model
\* ------------------------------------------------------------------------

\* Overwrite calls made in a row on one root (main.go's loop over the args).
MaxOps == 2

\* Longest key string handed to parseKey in SpecParse.
MaxLen == 6

\* ------------------------------------------------------------------------
\* Characters and strings
\* ------------------------------------------------------------------------

LowerLetters ==
  {"a","b","c","d","e","f","g","h","i","j","k","l","m",
   "n","o","p","q","r","s","t","u","v","w","x","y","z"}

UpperLetters ==
  {"A","B","C","D","E","F","G","H","I","J","K","L","M",
   "N","O","P","Q","R","S","T","U","V","W","X","Y","Z"}

DigitChars == {"0","1","2","3","4","5","6","7","8","9"}

\* regexp classes [a-zA-Z], [0-9], [a-zA-Z0-9] of fieldKeyRE / indexKeyRE
IsLetter(c) == c \in LowerLetters \cup UpperLetters
IsDigit(c) == c \in DigitChars
IsAlnum(c) == IsLetter(c) \/ IsDigit(c)

LowerOf ==
  [A |-> "a", B |-> "b", C |-> "c", D |-> "d", E |-> "e", F |-> "f", G |-> "g",
   H |-> "h", I |-> "i", J |-> "j", K |-> "k", L |-> "l", M |-> "m", N |-> "n",
   O |-> "o", P |-> "p", Q |-> "q", R |-> "r", S |-> "s", T |-> "t", U |-> "u",
   V |-> "v", W |-> "w", X |-> "x", Y |-> "y", Z |-> "z"]

\* strings.ToLower
ToLower(s) == [i \in 1..Len(s) |-> IF s[i] \in UpperLetters THEN LowerOf[s[i]] ELSE s[i]]

DigitVal ==
  [c \in DigitChars |->
     CASE c = "0" -> 0 [] c = "1" -> 1 [] c = "2" -> 2 [] c = "3" -> 3 [] c = "4" -> 4
       [] c = "5" -> 5 [] c = "6" -> 6 [] c = "7" -> 7 [] c = "8" -> 8 [] c = "9" -> 9]

DigitChar == <<"0","1","2","3","4","5","6","7","8","9">>

RECURSIVE DecimalValue(_)
\* the number a run of decimal digits denotes
DecimalValue(ds) ==
  IF ds = <<>> THEN 0
  ELSE 10 * DecimalValue(SubSeq(ds, 1, Len(ds) - 1)) + DigitVal[ds[Len(ds)]]

RECURSIVE FormatDecimal(_)
\* fmt's %d of a non-negative int
FormatDecimal(n) ==
  IF n < 10 THEN <<DigitChar[n + 1]>>
  ELSE FormatDecimal(n \div 10) \o <<DigitChar[(n % 10) + 1]>>

\* the digits of math.MaxInt64, the largest int of the build (strconv's range limit)
MaxInt64Digits ==
  <<"9","2","2","3","3","7","2","0","3","6","8","5","4","7","7","5","8","0","7">>

\* the digits of 2^63, the magnitude of math.MinInt64
MinInt64Digits ==
  <<"9","2","2","3","3","7","2","0","3","6","8","5","4","7","7","5","8","0","8">>

RECURSIVE StripZeros(_)
StripZeros(ds) == IF Len(ds) > 1 /\ ds[1] = "0" THEN StripZeros(Tail(ds)) ELSE ds

RECURSIVE DigitsLeq(_, _)
\* a <= b for two digit runs of the same length
DigitsLeq(a, b) ==
  IF a = <<>> THEN TRUE
  ELSE IF DigitVal[a[1]] # DigitVal[b[1]] THEN DigitVal[a[1]] < DigitVal[b[1]]
  ELSE DigitsLeq(Tail(a), Tail(b))

\* whether the number a digit run denotes is at most the number limit denotes
InRange(ds, limit) ==
  LET d == StripZeros(ds)
  IN Len(d) < Len(limit) \/ (Len(d) = Len(limit) /\ DigitsLeq(d, limit))

RECURSIVE AlnumRunLen(_)
\* length of the longest prefix matching [a-zA-Z0-9]*
AlnumRunLen(s) ==
  IF s = <<>> \/ ~IsAlnum(s[1]) THEN 0 ELSE 1 + AlnumRunLen(Tail(s))

RECURSIVE DigitRunLen(_)
\* length of the longest prefix matching [0-9]*
DigitRunLen(s) ==
  IF s = <<>> \/ ~IsDigit(s[1]) THEN 0 ELSE 1 + DigitRunLen(Tail(s))

Drop(s, n) == SubSeq(s, n + 1, Len(s))
Take(s, n) == SubSeq(s, 1, n)

\* ------------------------------------------------------------------------
\* Key chains: terminalKey, fieldKey, indexKey
\* ------------------------------------------------------------------------

terminalKey == <<>>
FieldStep(name) == [tag |-> "field", field |-> name, index |-> 0]
IndexStep(i) == [tag |-> "index", field |-> <<>>, index |-> i]

\* the dynamic type of a key value, as the type switches of the source see it
KeyType(k) == IF k = <<>> THEN "terminalKey"
              ELSE IF k[1].tag = "field" THEN "fieldKey" ELSE "indexKey"
subkey(k) == Tail(k)

RECURSIVE KeyString(_)

\* a slip: the separator is written before every kind of subkey
fieldKeyStringAlwaysDot(k) == k[1].field \o <<".">> \o KeyString(subkey(k))

fieldKeyString(k) ==
  IF KeyType(subkey(k)) = "fieldKey"
    THEN k[1].field \o <<".">> \o KeyString(subkey(k))
    ELSE k[1].field \o KeyString(subkey(k))

indexKeyString(k) ==
  LET indexStr == <<"[">> \o FormatDecimal(k[1].index) \o <<"]">>
  IN IF KeyType(subkey(k)) = "fieldKey"
       THEN indexStr \o <<".">> \o KeyString(subkey(k))
       ELSE indexStr \o KeyString(subkey(k))

\* key.String(), dispatched on the key's dynamic type
KeyString(k) ==
  CASE KeyType(k) = "terminalKey" -> <<>>
    [] KeyType(k) = "fieldKey" -> fieldKeyString(k)
    [] KeyType(k) = "indexKey" -> indexKeyString(k)

\* a slip: anything may follow the token
SubkeyPatternAnything(rest) == TRUE

\* subkeyPattern ((?:\.|\[).+)?$ : what follows the token is nothing, or a '.' or
\* '[' followed by at least one more character (no string here holds a newline,
\* the one character '.' does not match)
SubkeyPatternMatches(rest) ==
  rest = <<>> \/ (Len(rest) >= 2 /\ rest[1] \in {".", "["})

\* fieldKeyRE ^\.?([a-zA-Z][a-zA-Z0-9]*)((?:\.|\[).+)?$ : groups 1 and 2 of the
\* leftmost-first match (the greedy name run is the only split that can match)
fieldKeyRE(s) ==
  LET body == IF s # <<>> /\ s[1] = "." THEN Tail(s) ELSE s
      n == AlnumRunLen(body)
  IN IF body # <<>> /\ IsLetter(body[1]) /\ SubkeyPatternMatches(Drop(body, n))
       THEN [matched |-> TRUE, g1 |-> Take(body, n), g2 |-> Drop(body, n)]
       ELSE [matched |-> FALSE, g1 |-> <<>>, g2 |-> <<>>]

\* indexKeyRE ^\[([0-9]+)\]((?:\.|\[).+)?$
indexKeyRE(s) ==
  LET body == IF s # <<>> THEN Tail(s) ELSE <<>>
      n == DigitRunLen(body)
  IN IF s # <<>> /\ s[1] = "[" /\ n >= 1 /\ Len(body) > n /\ body[n + 1] = "]"
        /\ SubkeyPatternMatches(Drop(body, n + 1))
       THEN [matched |-> TRUE, g1 |-> Take(body, n), g2 |-> Drop(body, n + 1)]
       ELSE [matched |-> FALSE, g1 |-> <<>>, g2 |-> <<>>]

\* strconv.Atoi of a run of digits: a range error past the 64-bit int
Atoi(ds) ==
  IF ~InRange(ds, MaxInt64Digits) THEN [ok |-> FALSE, n |-> 0]
  ELSE [ok |-> TRUE, n |-> DecimalValue(ds)]

\* what parseKey returns: a key and a nil error, or no key and an error
Parsed(key) == [ok |-> TRUE, key |-> key, msg |-> ""]
ParseError(msg) == [ok |-> FALSE, key |-> <<>>, msg |-> msg]

RECURSIVE parseKey(_)
parseKey(keystr) ==
  LET f == fieldKeyRE(keystr)
      x == indexKeyRE(keystr)
  IN IF f.matched THEN
       IF Len(f.g2) # 0 THEN
         LET sub == parseKey(f.g2)
         IN IF ~sub.ok THEN sub
            ELSE Parsed(<<FieldStep(f.g1)>> \o sub.key)
       ELSE Parsed(<<FieldStep(f.g1)>>)
     ELSE IF x.matched THEN
       LET a == Atoi(x.g1)
       IN IF ~a.ok THEN ParseError("strconv")
          ELSE IF Len(x.g2) # 0 THEN
            LET sub == parseKey(x.g2)
            IN IF ~sub.ok THEN sub
               ELSE Parsed(<<IndexStep(a.n)>> \o sub.key)
          ELSE Parsed(<<IndexStep(a.n)>>)
     ELSE ParseError("invalid key")

\* ------------------------------------------------------------------------
\* Types (reflect.Type) and values
\* ------------------------------------------------------------------------

Desc(kind, elem, len, fields) == [kind |-> kind, elem |-> elem, len |-> len, fields |-> fields]
Field(name, type) == [name |-> name, type |-> type]

\* The types of the value trees: the scalar kinds terminalKey.apply knows, the
\* containers subkeyType() creates (map[string]interface{}, []interface{}),
\* the test file's structs WT1, WT3 and WT6 with pointers to them, a fixed-length
\* array [2]string with a struct WA holding one, *map[string]interface{} (the
\* root main.go passes), and a struct WP whose members are pointers (*WT1, *WT1
\* and *[]string).  "invalid" is the type-less zero reflect.Value.
Types ==
  [string      |-> Desc("String", "", 0, <<>>),
   float64     |-> Desc("Float64", "", 0, <<>>),
   bool        |-> Desc("Bool", "", 0, <<>>),
   int         |-> Desc("Int", "", 0, <<>>),
   int8        |-> Desc("Int8", "", 0, <<>>),
   iface       |-> Desc("Interface", "", 0, <<>>),
   mapIface    |-> Desc("Map", "iface", 0, <<>>),
   sliceIface  |-> Desc("Slice", "iface", 0, <<>>),
   sliceString |-> Desc("Slice", "string", 0, <<>>),
   arrayString |-> Desc("Array", "string", 2, <<>>),
   WT1         |-> Desc("Struct", "", 0, <<Field(<<"V","1">>, "string")>>),
   WT3         |-> Desc("Struct", "", 0, <<Field(<<"V","s">>, "sliceString")>>),
   WT6         |-> Desc("Struct", "", 0, <<Field(<<"F","1">>, "iface")>>),
   WA          |-> Desc("Struct", "", 0, <<Field(<<"V","s">>, "arrayString")>>),
   ptrWT3      |-> Desc("Ptr", "WT3", 0, <<>>),
   ptrWT6      |-> Desc("Ptr", "WT6", 0, <<>>),
   ptrWA       |-> Desc("Ptr", "WA", 0, <<>>),
   ptrMapIface |-> Desc("Ptr", "mapIface", 0, <<>>),
   ptrWT1      |-> Desc("Ptr", "WT1", 0, <<>>),
   ptrSliceString |-> Desc("Ptr", "sliceString", 0, <<>>),
   WP          |-> Desc("Struct", "", 0, <<Field(<<"F","1">>, "ptrWT1"),
                                            Field(<<"V","1">>, "ptrWT1"),
                                            Field(<<"V","s">>, "ptrSliceString")>>),
   ptrWP       |-> Desc("Ptr", "WP", 0, <<>>),
   invalid     |-> Desc("Invalid", "", 0, <<>>)]

\* obj.Type().Kind()
Kind(v) == Types[v.t].kind
IntKinds == {"Int", "Int8"}

\* the zero reflect.Value, what Elem() of a nil interface returns
Invalid == [t |-> "invalid"]
\* the content of a nil interface
Nil == [t |-> "nil"]

StringValue(s) == [t |-> "string", s |-> s]
\* a float64 holding m / 10^e, with no trailing zero in the fraction
FloatValue(m, e) == [t |-> "float64", m |-> m, e |-> e]
BoolValue(b) == [t |-> "bool", b |-> b]
IntValue(t, n) == [t |-> t, n |-> n]
\* an interface{} slot holding v
IfaceValue(v) == [t |-> "iface", dyn |-> v]
\* maps and pointers refer to a heap object, 0 when nil
RefValue(t, ref) == [t |-> t, ref |-> ref]
\* a slice header: its backing array in the heap (0 when nil) and its length
SliceValue(t, ref, len) == [t |-> t, ref |-> ref, len |-> len]
StructValue(t, f) == [t |-> t, f |-> f]
ArrayValue(t, elems) == [t |-> t, elems |-> elems]

RECURSIVE Zero(_)
\* reflect.New(t).Elem() / reflect.Zero(t): the zero value of type t
Zero(t) ==
  LET d == Types[t]
  IN CASE d.kind = "String" -> StringValue(<<>>)
       [] d.kind = "Float64" -> FloatValue(0, 0)
       [] d.kind = "Bool" -> BoolValue(FALSE)
       [] d.kind \in IntKinds -> IntValue(t, 0)
       [] d.kind = "Interface" -> IfaceValue(Nil)
       [] d.kind \in {"Map", "Ptr"} -> RefValue(t, 0)
       [] d.kind = "Slice" -> SliceValue(t, 0, 0)
       [] d.kind = "Array" -> ArrayValue(t, [i \in 1..d.len |-> Zero(d.elem)])
       [] d.kind = "Struct" ->
            StructValue(t, [i \in 1..Len(d.fields) |-> Zero(d.fields[i].type)])

\* heap objects
MapObject(m) == [kind |-> "map", m |-> m]
ArrObject(elems) == [kind |-> "arr", elems |-> elems]
CellObject(val) == [kind |-> "cell", val |-> val]

\* reflect.New / MakeMap / MakeSlice: a fresh object at the next address
Alloc(h, o) == [h |-> Append(h, o), ref |-> Len(h) + 1]

\* obj.Len() of a slice or an array
LenOf(obj) == IF Kind(obj) = "Slice" THEN obj.len ELSE Len(obj.elems)

\* ------------------------------------------------------------------------
\* strconv
\* ------------------------------------------------------------------------

SplitSign(s) ==
  IF s # <<>> /\ s[1] \in {"+", "-"}
    THEN [neg |-> s[1] = "-", rest |-> Tail(s)]
    ELSE [neg |-> FALSE, rest |-> s]

\* strconv.ParseInt(value, 10, 64): an optional sign and one or more decimal
\* digits, within the 64-bit range
ParseInt(value) ==
  LET p == SplitSign(value)
      syntax == p.rest # <<>> /\ DigitRunLen(p.rest) = Len(p.rest)
  IN IF ~syntax THEN [ok |-> FALSE, n |-> 0]
     ELSE IF ~InRange(p.rest, IF p.neg THEN MinInt64Digits ELSE MaxInt64Digits)
       THEN [ok |-> FALSE, n |-> 0]
     ELSE [ok |-> TRUE, n |-> IF p.neg THEN 0 - DecimalValue(p.rest) ELSE DecimalValue(p.rest)]

RECURSIVE NormFloat(_, _)
NormFloat(m, e) == IF e > 0 /\ m % 10 = 0 THEN NormFloat(m \div 10, e - 1) ELSE FloatValue(m, e)

\* strconv.ParseFloat(value, 64) on decimal text without exponent: an optional
\* sign, digits, and an optional '.' with more digits, at least one digit in all.
\* (Exponents, hex floats, "inf" and "nan" are not among the values written here.)
ParseFloat(value) ==
  LET p == SplitSign(value)
      ni == DigitRunLen(p.rest)
      afterInt == Drop(p.rest, ni)
      hasDot == afterInt # <<>> /\ afterInt[1] = "."
      frac == IF hasDot THEN Tail(afterInt) ELSE <<>>
      syntax == /\ IF hasDot THEN DigitRunLen(frac) = Len(frac) ELSE afterInt = <<>>
                /\ ni + Len(frac) >= 1
      mag == DecimalValue(Take(p.rest, ni) \o frac)
  IN IF ~syntax THEN [ok |-> FALSE, v |-> FloatValue(0, 0)]
     ELSE [ok |-> TRUE, v |-> NormFloat(IF p.neg THEN 0 - mag ELSE mag, Len(frac))]

\* strconv.ParseBool
ParseBool(value) ==
  IF value \in {<<"1">>, <<"t">>, <<"T">>, <<"T","R","U","E">>, <<"t","r","u","e">>,
                <<"T","r","u","e">>}
    THEN [ok |-> TRUE, b |-> TRUE]
  ELSE IF value \in {<<"0">>, <<"f">>, <<"F">>, <<"F","A","L","S","E">>,
                     <<"f","a","l","s","e">>, <<"F","a","l","s","e">>}
    THEN [ok |-> TRUE, b |-> FALSE]
  ELSE [ok |-> FALSE, b |-> FALSE]

\* Value.SetInt on a slot of type t: the 64-bit value is truncated to the
\* slot's width (int is 64 bits wide and holds every parsed value)
SetInt(t, n) ==
  IF Types[t].kind = "Int8" THEN IntValue(t, ((n + 128) % 256) - 128)
  ELSE IntValue(t, n)

\* ------------------------------------------------------------------------
\* apply: the walk of a key chain over a value tree
\* ------------------------------------------------------------------------
\* A call k.apply(obj, value) is Apply(k, obj, can, value, h): obj is the value
\* the reflect.Value holds, can says whether it is settable (CanSet) and h is
\* the heap.  The result is the set of possible outcomes (the order of MapKeys()
\* is not specified), each [st, msg, v, h]: st is "ok" (nil), "err" (the error
\* msg is returned) or "panic" (reflect panics), v is what the place obj refers to
\* holds afterwards, h the heap afterwards.  The caller stores v back where the
\* place lives; a place that is not settable is never changed.

Outcome(st, v, h) == [st |-> st, msg |-> "", v |-> v, h |-> h]
\* an error return; msg is the fixed part of the message (a strconv error is
\* "strconv")
Err(msg, v, h) == [st |-> "err", msg |-> msg, v |-> v, h |-> h]
\* the caller's view of the callee's outcome r: the caller's own place and heap
Carry(r, v, h) == [r EXCEPT !.v = v, !.h = h]

RECURSIVE Apply(_, _, _, _, _)

\* case reflect.Ptr of terminalKey.apply and fieldKey.apply: allocate a nil
\* pointer's target (obj.Set needs a settable obj), then apply k to obj.Elem()
ApplyThroughPtr(k, obj, can, value, h) ==
  IF obj.ref = 0 /\ ~can THEN {Outcome("panic", obj, h)}
  ELSE LET a == IF obj.ref = 0 THEN Alloc(h, CellObject(Zero(Types[obj.t].elem)))
                ELSE [h |-> h, ref |-> obj.ref]
           p == RefValue(obj.t, a.ref)
       IN {Carry(r, p, [r.h EXCEPT ![a.ref].val = r.v]) :
             r \in Apply(k, a.h[a.ref].val, TRUE, value, a.h)}

\* a Set* call on obj: it panics unless obj is settable
SetTo(obj, can, new, h) ==
  IF can THEN {Outcome("ok", new, h)} ELSE {Outcome("panic", obj, h)}

terminalKeyApply(k, obj, can, value, h) ==
  CASE Kind(obj) = "Invalid" -> {Outcome("panic", obj, h)}
    [] Kind(obj) = "Ptr" -> ApplyThroughPtr(k, obj, can, value, h)
    [] Kind(obj) = "Interface" -> SetTo(obj, can, IfaceValue(StringValue(value)), h)
    [] Kind(obj) = "String" -> SetTo(obj, can, StringValue(value), h)
    [] Kind(obj) = "Float64" ->
         LET fvalue == ParseFloat(value)
         IN IF ~fvalue.ok THEN {Err("strconv", obj, h)}
            ELSE SetTo(obj, can, fvalue.v, h)
    [] Kind(obj) \in IntKinds ->
         LET ivalue == ParseInt(value)
         IN IF ~ivalue.ok THEN {Err("strconv", obj, h)}
            ELSE SetTo(obj, can, SetInt(obj.t, ivalue.n), h)
    [] Kind(obj) = "Bool" ->
         LET bvalue == ParseBool(value)
         IN IF ~bvalue.ok THEN {Err("strconv", obj, h)}
            ELSE SetTo(obj, can, BoolValue(bvalue.b), h)
    [] OTHER -> {Err("don't know how to set value type", obj, h)}

\* a slip: a field subkey is given the type chosen for a terminal
subkeyTypeAlwaysString(k) == "string"

\* fieldKey.subkeyType: map[string]interface{}, []interface{} or string
subkeyType(k) ==
  CASE KeyType(subkey(k)) = "fieldKey" -> "mapIface"
    [] KeyType(subkey(k)) = "indexKey" -> "sliceIface"
    [] KeyType(subkey(k)) = "terminalKey" -> "string"

\* a slip: the field is compared with the stored key as spelled
KeyMatchesExactly(strkey, field) == strkey = field

\* strings.ToLower(strkey) == strings.ToLower(k.field)
KeyMatches(strkey, field) == ToLower(strkey) = ToLower(field)

\* a slip: the slice is not copied, the map's own backing array is written
CopyObjAliasing(origObj, h) == [v |-> origObj, h |-> h]

\* the copy of a map value that applyToMap hands to the subkey: a slice gets a
\* fresh backing array holding the same elements; any other kind gets
\* reflect.New(origObj.Type()).Elem(), the zero value of its type
CopyObj(origObj, h) ==
  IF Kind(origObj) = "Slice"
    THEN LET old == IF origObj.ref = 0 THEN <<>> ELSE h[origObj.ref].elems
             a == Alloc(h, ArrObject([j \in 1..origObj.len |-> old[j]]))
         IN [v |-> SliceValue(origObj.t, a.ref, origObj.len), h |-> a.h]
    ELSE [v |-> Zero(origObj.t), h |-> h]

\* obj.SetMapIndex(key, v) on the map object at ref: a map of interface{}
\* boxes the value
SetMapIndex(h, ref, mapType, key, v) ==
  LET stored == IF Types[Types[mapType].elem].kind = "Interface" /\ Kind(v) # "Interface"
                  THEN IfaceValue(v) ELSE v
      m == h[ref].m
  IN [h EXCEPT ![ref].m = [x \in DOMAIN m \cup {key} |-> IF x = key THEN stored ELSE m[x]]]

\* a slip: the copy is bound to the key whatever the subkey returned
applyToMapFoundEager(k, obj, mapKey, value, h) ==
  LET subObj == h[obj.ref].m[mapKey]
      origObj == IF Kind(subObj) = "Interface"
                   THEN IF subObj.dyn = Nil THEN Zero(subkeyType(k)) ELSE subObj.dyn
                   ELSE subObj
      c == CopyObj(origObj, h)
  IN {[r EXCEPT !.v = obj, !.h = SetMapIndex(r.h, obj.ref, obj.t, mapKey, r.v)] :
        r \in Apply(subkey(k), c.v, TRUE, value, c.h)}

\* the body of the loop over obj.MapKeys() for a key that matches
applyToMapFound(k, obj, mapKey, value, h) ==
  LET subObj == h[obj.ref].m[mapKey]
      origObj == IF Kind(subObj) = "Interface"
                   THEN IF subObj.dyn = Nil THEN Zero(subkeyType(k)) ELSE subObj.dyn
                   ELSE subObj
      c == CopyObj(origObj, h)
  IN {IF r.st # "ok" THEN Carry(r, obj, r.h)
      ELSE Outcome("ok", obj, SetMapIndex(r.h, obj.ref, obj.t, mapKey, r.v)) :
        r \in Apply(subkey(k), c.v, TRUE, value, c.h)}

\* "key not found, need to make a new one"
applyToMapNew(k, obj, value, h) ==
  LET elemType == Types[obj.t].elem
      concreteType == IF Types[elemType].kind = "Interface" THEN subkeyType(k) ELSE elemType
  IN {IF r.st # "ok" THEN Carry(r, obj, r.h)
      ELSE Outcome("ok", obj, SetMapIndex(r.h, obj.ref, obj.t, k[1].field, r.v)) :
        r \in Apply(subkey(k), Zero(concreteType), TRUE, value, h)}

\* fieldKey.applyToMap (every map type here has string keys).  The loop returns
\* at the first matching key of MapKeys(), whose order is unspecified: any
\* matching key can be the one.
applyToMap(k, obj, can, value, h) ==
  IF obj.ref = 0 /\ ~can THEN {Outcome("panic", obj, h)}
  ELSE LET a == IF obj.ref = 0 THEN Alloc(h, MapObject(<<>>)) ELSE [h |-> h, ref |-> obj.ref]
           m == RefValue(obj.t, a.ref)
           matching == {mapKey \in DOMAIN a.h[a.ref].m : KeyMatches(mapKey, k[1].field)}
       IN IF matching # {}
            THEN UNION {applyToMapFound(k, m, mapKey, value, a.h) : mapKey \in matching}
            ELSE applyToMapNew(k, m, value, a.h)

\* the block of applyToStruct for a field that is a nil interface
applyToStructNilInterface(k, obj, i, can, value, h) ==
  LET WithField(v) == [obj EXCEPT !.f[i] = v]
  IN CASE KeyType(subkey(k)) = "fieldKey" ->
            IF ~can THEN {Outcome("panic", obj, h)}
            ELSE LET a == Alloc(h, MapObject(<<>>))
                     subObj == IfaceValue(RefValue("mapIface", a.ref))
                 IN {Carry(r, WithField(r.v), r.h) :
                       r \in Apply(subkey(k), subObj, can, value, a.h)}
       [] KeyType(subkey(k)) = "indexKey" ->
            IF ~can THEN {Outcome("panic", obj, h)}
            ELSE LET a == Alloc(h, ArrObject(<<>>))
                     subObj == IfaceValue(SliceValue("sliceIface", a.ref, 0))
                 IN {Carry(r, WithField(r.v), r.h) :
                       r \in Apply(subkey(k), subObj, can, value, a.h)}
       [] KeyType(subkey(k)) = "terminalKey" ->
            {IF r.st # "ok" THEN Carry(r, obj, r.h)
             ELSE IF ~can THEN Outcome("panic", obj, r.h)
             ELSE Outcome("ok", WithField(IfaceValue(r.v)), r.h) :
               r \in Apply(subkey(k), Zero("string"), TRUE, value, h)}

\* a slip: a name the struct does not declare is passed over in silence
applyToStructLenient(k, obj, can, value, h) == {Outcome("ok", obj, h)}

\* fieldKey.applyToStruct: the first declared field matching ignoring case
applyToStruct(k, obj, can, value, h) ==
  LET fields == Types[obj.t].fields
      matching == {i \in 1..Len(fields) : KeyMatches(fields[i].name, k[1].field)}
  IN IF matching = {} THEN {Err("no field", obj, h)}
     ELSE LET i == CHOOSE j \in matching : \A j2 \in matching : j <= j2
              subObj == obj.f[i]
          IN IF Kind(subObj) = "Ptr" /\ subObj.ref = 0 /\ ~can
               THEN {Outcome("panic", obj, h)}
             \* a settable nil pointer is Set to reflect.New(its type).Elem(),
             \* the nil pointer again
             ELSE IF Kind(subObj) = "Interface" /\ subObj.dyn = Nil
               THEN applyToStructNilInterface(k, obj, i, can, value, h)
             ELSE {Carry(r, [obj EXCEPT !.f[i] = r.v], r.h) :
                     r \in Apply(subkey(k), subObj, can, value, h)}

fieldKeyApply(k, obj, can, value, h) ==
  CASE Kind(obj) = "Invalid" -> {Outcome("panic", obj, h)}
    [] Kind(obj) = "Interface" ->
         \* obj.Elem() is not settable, and is the zero Value for a nil interface
         {Carry(r, obj, r.h) :
            r \in Apply(k, IF obj.dyn = Nil THEN Invalid ELSE obj.dyn, FALSE, value, h)}
    [] Kind(obj) = "Ptr" -> ApplyThroughPtr(k, obj, can, value, h)
    [] Kind(obj) = "Map" -> applyToMap(k, obj, can, value, h)
    [] Kind(obj) = "Struct" -> applyToStruct(k, obj, can, value, h)
    [] OTHER -> {Err("expected map or struct", obj, h)}

\* a slip: the bound check forgets that only arrays cannot grow
IndexTooLargeAnyKind(obj, index) == LenOf(obj) <= index

\* obj.Len() <= k.index && obj.Type().Kind() == reflect.Array
IndexTooLarge(obj, index) == LenOf(obj) <= index /\ Kind(obj) = "Array"

\* a slip: the new slice is not filled from the old one
GrowSliceNoCopy(obj, index, h) ==
  LET a == Alloc(h, ArrObject([j \in 1..(index + 1) |-> Zero(Types[obj.t].elem)]))
  IN [v |-> SliceValue(obj.t, a.ref, index + 1), h |-> a.h]

\* "check if we need to grow the slice": MakeSlice(type, index+1, index+1),
\* reflect.Copy(newslice, obj), obj.Set(newslice)
GrowSlice(obj, index, h) ==
  LET old == IF obj.ref = 0 THEN <<>> ELSE h[obj.ref].elems
      a == Alloc(h, ArrObject([j \in 1..(index + 1) |->
                                 IF j <= obj.len THEN old[j] ELSE Zero(Types[obj.t].elem)]))
  IN [v |-> SliceValue(obj.t, a.ref, index + 1), h |-> a.h]

indexKeyApply(k, obj, can, value, h) ==
  LET index == k[1].index
  IN IF Kind(obj) = "Invalid" THEN {Outcome("panic", obj, h)}
     ELSE IF Kind(obj) # "Slice" /\ Kind(obj) # "Array"
       THEN {Err("expected slice or array", obj, h)}
     ELSE IF IndexTooLarge(obj, index) THEN {Err("array index too large", obj, h)}
     ELSE IF Kind(obj) = "Slice" THEN
       IF LenOf(obj) <= index /\ ~can THEN {Outcome("panic", obj, h)}
       ELSE LET g == IF LenOf(obj) <= index THEN GrowSlice(obj, index, h)
                     ELSE [v |-> obj, h |-> h]
            \* obj.Index(i) of a slice is always settable: it is a place in the
            \* backing array
            IN {Carry(r, g.v, [r.h EXCEPT ![g.v.ref].elems[index + 1] = r.v]) :
                  r \in Apply(subkey(k), g.h[g.v.ref].elems[index + 1], TRUE, value, g.h)}
     \* an array: obj.Index(i) panics out of range, and is settable when obj is
     ELSE IF LenOf(obj) <= index THEN {Outcome("panic", obj, h)}
     ELSE {Carry(r, [obj EXCEPT !.elems[index + 1] = r.v], r.h) :
             r \in Apply(subkey(k), obj.elems[index + 1], can, value, h)}

\* k.apply(obj, value), dispatched on the key's dynamic type
Apply(k, obj, can, value, h) ==
  CASE KeyType(k) = "terminalKey" -> terminalKeyApply(k, obj, can, value, h)
    [] KeyType(k) = "fieldKey" -> fieldKeyApply(k, obj, can, value, h)
    [] KeyType(k) = "indexKey" -> indexKeyApply(k, obj, can, value, h)

\* Overwrite: parseKey, then k.apply(reflect.ValueOf(obj), value); the Value of
\* the argument itself is not settable
Overwrite(obj, keystr, value, h) ==
  LET k == parseKey(keystr)
  IN IF ~k.ok THEN {Err(k.msg, obj, h)}
     ELSE Apply(k.key, obj, FALSE, value, h)

\* ------------------------------------------------------------------------
\* SpecParse: parseKey, String() and parseKey again on every short string
\* ------------------------------------------------------------------------

VARIABLES keystr, pc, parsed, rendered, reparsed

parseVars == <<keystr, pc, parsed, rendered, reparsed>>

\* characters of the key strings tried: a letter, two digits (one of them zero)
\* and the three punctuation marks of the grammar
KeyAlphabet == {"x", "0", "1", ".", "[", "]"}

\* before parseKey has run
NoKey == ParseError("")

\* the idle values of the variables of Spec
VARIABLES rootName, root, heap, pre, log

vars == <<rootName, root, heap, pre, log>>

\* "[9223372036854775808": the start of a key string whose index is one past
\* the largest int
HugeIndexStart == <<"[">> \o MinInt64Digits

StartsHuge(s) ==
  Len(s) >= Len(HugeIndexStart) /\ SubSeq(s, 1, Len(HugeIndexStart)) = HugeIndexStart

\* at most MaxLen characters are added to the string the caller starts from
InputLimit(s) == IF StartsHuge(s) THEN Len(HugeIndexStart) + MaxLen ELSE MaxLen

\* the caller starts from the empty string, or from the start of a huge index
ParseInit ==
  /\ rootName = "none" /\ root = Nil /\ heap = <<>> /\ pre = <<>> /\ log = <<>>
  /\ keystr \in {<<>>, HugeIndexStart}
  /\ pc = "input"
  /\ parsed = NoKey
  /\ rendered = <<>>
  /\ reparsed = NoKey

\* the caller's key string, one character at a time
Extend ==
  /\ pc = "input"
  /\ Len(keystr) < InputLimit(keystr)
  /\ \E c \in KeyAlphabet : keystr' = Append(keystr, c)
  /\ UNCHANGED <<pc, parsed, rendered, reparsed, vars>>

Parse ==
  /\ pc = "input"
  /\ parsed' = parseKey(keystr)
  /\ pc' = IF parsed'.ok THEN "render" ELSE "failed"
  /\ UNCHANGED <<keystr, rendered, reparsed, vars>>

Render ==
  /\ pc = "render"
  /\ rendered' = KeyString(parsed.key)
  /\ pc' = "reparse"
  /\ UNCHANGED <<keystr, parsed, reparsed, vars>>

Reparse ==
  /\ pc = "reparse"
  /\ reparsed' = parseKey(rendered)
  /\ pc' = "done"
  /\ UNCHANGED <<keystr, parsed, rendered, vars>>

ParseNext == Extend \/ Parse \/ Render \/ Reparse

SpecParse == ParseInit /\ [][ParseNext]_<<parseVars, vars>>

\* ------------------------------------------------------------------------
\* Spec: a caller applying Overwrite calls one after the other to one root
\* ------------------------------------------------------------------------

\* rootName: which root the caller built; root: the obj argument of every
\* call; heap: the heap now; pre: the heap before the last call; log: the
\* calls made, each with its key string, value and outcome

nF1 == <<"F","1">>
nV1 == <<"V","1">>
nVs == <<"V","s">>
nX == <<"X">>

\* a map from a set of <<key, value>> pairs
MapOf(pairs) == [key \in {p[1] : p \in pairs} |-> (CHOOSE p \in pairs : p[1] = key)[2]]

\* The roots: the empty map[string]interface{} of the tests and main.go's
\* pointer to it; a map holding two keys that differ only in case; a decoded
\* JSON document {"F1": {"V1": "x", "X": 1.5}, "V1": 1.5, "Vs": [1.5, "y"]};
\* a map holding a struct and an array, {"F1": WT1{V1: "bar"}, "Vs": [2]string{"x", "y"}};
\* a decoded document with a map inside a sequence, {"Vs": [{"V1": "x"}]};
\* &WT3{Vs: []string{"x", "y"}}; &WA{Vs: [2]string{"x", "y"}}; &WT6{F1: 1.5};
\* &WP{} with its three nil pointers; a map holding a sequence with a pointer in
\* it, {"Vs": []interface{}{&WP{}}}; a map holding integers of two widths,
\* {"F1": int(1), "V1": int8(1)}
Roots ==
  [empty |->
     [v |-> RefValue("mapIface", 1),
      h |-> <<MapObject(<<>>)>>],
   cli |->
     [v |-> RefValue("ptrMapIface", 1),
      h |-> <<CellObject(RefValue("mapIface", 2)), MapObject(<<>>)>>],
   caseKeys |->
     [v |-> RefValue("mapIface", 1),
      h |-> <<MapObject(MapOf({<<nV1, IfaceValue(StringValue(<<"x">>))>>,
                               <<ToLower(nV1), IfaceValue(StringValue(<<"y">>))>>}))>>],
   decoded |->
     [v |-> RefValue("mapIface", 1),
      h |-> <<MapObject(MapOf({<<nF1, IfaceValue(RefValue("mapIface", 2))>>,
                               <<nV1, IfaceValue(FloatValue(15, 1))>>,
                               <<nVs, IfaceValue(SliceValue("sliceIface", 3, 2))>>})),
              MapObject(MapOf({<<nV1, IfaceValue(StringValue(<<"x">>))>>,
                               <<nX, IfaceValue(FloatValue(15, 1))>>})),
              ArrObject(<<IfaceValue(FloatValue(15, 1)), IfaceValue(StringValue(<<"y">>))>>)>>],
   rec |->
     [v |-> RefValue("mapIface", 1),
      h |-> <<MapObject(MapOf({<<nF1, IfaceValue(StructValue("WT1", <<StringValue(<<"b","a","r">>)>>))>>,
                               <<nVs, IfaceValue(ArrayValue("arrayString",
                                        <<StringValue(<<"x">>), StringValue(<<"y">>)>>))>>}))>>],
   nested |->
     [v |-> RefValue("mapIface", 1),
      h |-> <<MapObject(MapOf({<<nVs, IfaceValue(SliceValue("sliceIface", 2, 1))>>})),
              ArrObject(<<IfaceValue(RefValue("mapIface", 3))>>),
              MapObject(MapOf({<<nV1, IfaceValue(StringValue(<<"x">>))>>}))>>],
   wt3 |->
     [v |-> RefValue("ptrWT3", 1),
      h |-> <<CellObject(StructValue("WT3", <<SliceValue("sliceString", 2, 2)>>)),
              ArrObject(<<StringValue(<<"x">>), StringValue(<<"y">>)>>)>>],
   wa |->
     [v |-> RefValue("ptrWA", 1),
      h |-> <<CellObject(StructValue("WA", <<ArrayValue("arrayString",
                           <<StringValue(<<"x">>), StringValue(<<"y">>)>>)>>))>>],
   wt6 |->
     [v |-> RefValue("ptrWT6", 1),
      h |-> <<CellObject(StructValue("WT6", <<IfaceValue(FloatValue(15, 1))>>))>>],
   wp |->
     [v |-> RefValue("ptrWP", 1),
      h |-> <<CellObject(Zero("WP"))>>],
   held |->
     [v |-> RefValue("mapIface", 1),
      h |-> <<MapObject(MapOf({<<nVs, IfaceValue(SliceValue("sliceIface", 2, 1))>>})),
              ArrObject(<<IfaceValue(RefValue("ptrWP", 3))>>),
              CellObject(Zero("WP"))>>],
   ints |->
     [v |-> RefValue("mapIface", 1),
      h |-> <<MapObject(MapOf({<<nF1, IfaceValue(IntValue("int", 1))>>,
                               <<nV1, IfaceValue(IntValue("int8", 1))>>}))>>]]

\* the key strings of the calls: V1, v1, f1, f1.v1, f1.x, f1.f1.v1, vs[0],
\* vs[3], vs[0].v1, vs[0][0] and the malformed "v1."
Paths ==
  {nV1,
   <<"v","1">>,
   <<"f","1">>,
   <<"f","1",".","v","1">>,
   <<"f","1",".","x">>,
   <<"f","1",".","f","1",".","v","1">>,
   <<"v","s","[","0","]">>,
   <<"v","s","[","3","]">>,
   <<"v","s","[","0","]",".","v","1">>,
   <<"v","s","[","0","]","[","0","]">>,
   <<"v","1",".">>}

\* the values written: "foo" and "7"
Values == {<<"f","o","o">>, <<"7">>}

\* the values written to a root: the map of integers is also given "300", a
\* number too wide for an int8
ValuesFor(name) == IF name = "ints" THEN Values \cup {<<"3","0","0">>} ELSE Values

Call(k, value, r) == [keystr |-> k, value |-> value, st |-> r.st, msg |-> r.msg]

\* the idle values of the variables of the other specification
ParseIdle ==
  /\ keystr = <<>>
  /\ pc = "idle"
  /\ parsed = NoKey
  /\ rendered = <<>>
  /\ reparsed = NoKey

Init ==
  /\ rootName \in DOMAIN Roots
  /\ root = Roots[rootName].v
  /\ heap = Roots[rootName].h
  /\ pre = heap
  /\ log = <<>>
  /\ ParseIdle

\* one Overwrite(obj, keystr, value) call; nothing follows a panic
OverwriteCall ==
  /\ Len(log) < MaxOps
  /\ IF log = <<>> THEN TRUE ELSE log[Len(log)].st # "panic"
  /\ \E k \in Paths, value \in ValuesFor(rootName) :
       \E r \in Overwrite(root, k, value, heap) :
         /\ heap' = r.h
         /\ pre' = heap
         /\ log' = Append(log, Call(k, value, r))
  /\ UNCHANGED <<rootName, root, parseVars>>

Next == OverwriteCall

Spec == Init /\ [][Next]_<<vars, parseVars>>

\* ------------------------------------------------------------------------
\* Reading the state
\* ------------------------------------------------------------------------

RECURSIVE Tree(_, _)
\* the tree a value denotes in heap h: references replaced by what they refer to
Tree(v, h) ==
  CASE v = Nil -> Nil
    [] v # Nil /\ Kind(v) = "Interface" -> [t |-> v.t, dyn |-> Tree(v.dyn, h)]
    [] v # Nil /\ Kind(v) = "Map" ->
         IF v.ref = 0 THEN [t |-> v.t, isnil |-> TRUE, m |-> <<>>]
         ELSE [t |-> v.t, isnil |-> FALSE,
               m |-> [key \in DOMAIN h[v.ref].m |-> Tree(h[v.ref].m[key], h)]]
    [] v # Nil /\ Kind(v) = "Slice" ->
         [t |-> v.t, isnil |-> v.ref = 0,
          elems |-> [i \in 1..v.len |-> Tree(h[v.ref].elems[i], h)]]
    [] v # Nil /\ Kind(v) = "Ptr" ->
         IF v.ref = 0 THEN [t |-> v.t, isnil |-> TRUE, to |-> Nil]
         ELSE [t |-> v.t, isnil |-> FALSE, to |-> Tree(h[v.ref].val, h)]
    [] v # Nil /\ Kind(v) = "Array" ->
         [t |-> v.t, elems |-> [i \in 1..Len(v.elems) |-> Tree(v.elems[i], h)]]
    [] v # Nil /\ Kind(v) = "Struct" ->
         [t |-> v.t, f |-> [i \in 1..Len(v.f) |-> Tree(v.f[i], h)]]
    [] OTHER -> v

\* the last call and its outcome
Called == log # <<>>
Last == log[Len(log)]
LastKey == parseKey(Last.keystr).key
Succeeded == Called /\ Last.st = "ok"

\* the root's mapping (the root itself, or what main.go's pointer refers to), when
\* the root is a map[string]interface{}
RootIsMap == root.t = "mapIface" \/ root.t = "ptrMapIface"
RootMapRef(h) == IF root.t = "mapIface" THEN root.ref ELSE h[root.ref].val.ref
RootMap(h) == h[RootMapRef(h)].m

RECURSIVE Lookup(_, _, _)
Missing == [t |-> "missing"]
\* the value chain k leads to from v in heap h, looking through interfaces and
\* pointers; Missing when the path does not exist.  A map key is resolved as
\* spelled when it is there, else ignoring case.
Lookup(v, h, k) ==
  IF v = Nil THEN (IF k = <<>> THEN Nil ELSE Missing)
  ELSE IF Kind(v) = "Interface" THEN Lookup(v.dyn, h, k)
  ELSE IF Kind(v) = "Ptr" THEN (IF v.ref = 0 THEN Missing ELSE Lookup(h[v.ref].val, h, k))
  ELSE IF k = <<>> THEN v
  ELSE IF k[1].tag = "field" /\ Kind(v) = "Map" THEN
    LET keys == IF v.ref = 0 THEN {} ELSE DOMAIN h[v.ref].m
        same == {x \in keys : ToLower(x) = ToLower(k[1].field)}
    IN IF same = {} THEN Missing
       ELSE LET key == IF k[1].field \in same THEN k[1].field ELSE CHOOSE x \in same : TRUE
            IN Lookup(h[v.ref].m[key], h, Tail(k))
  ELSE IF k[1].tag = "field" /\ Kind(v) = "Struct" THEN
    LET fields == Types[v.t].fields
        same == {i \in 1..Len(fields) : ToLower(fields[i].name) = ToLower(k[1].field)}
    IN IF same = {} THEN Missing
       ELSE Lookup(v.f[CHOOSE i \in same : \A j \in same : i <= j], h, Tail(k))
  ELSE IF k[1].tag = "index" /\ Kind(v) = "Slice" THEN
    IF k[1].index < v.len THEN Lookup(h[v.ref].elems[k[1].index + 1], h, Tail(k)) ELSE Missing
  ELSE IF k[1].tag = "index" /\ Kind(v) = "Array" THEN
    IF k[1].index < Len(v.elems) THEN Lookup(v.elems[k[1].index + 1], h, Tail(k)) ELSE Missing
  ELSE Missing

\* whether a scalar v is what writing the text value into a slot of v's type gives
Holds(v, value) ==
  CASE v \in {Nil, Missing} -> FALSE
    [] v \notin {Nil, Missing} /\ Kind(v) = "String" -> v = StringValue(value)
    [] v \notin {Nil, Missing} /\ Kind(v) = "Float64" ->
         ParseFloat(value).ok /\ v = ParseFloat(value).v
    [] v \notin {Nil, Missing} /\ Kind(v) \in IntKinds ->
         ParseInt(value).ok /\ v = SetInt(v.t, ParseInt(value).n)
    [] v \notin {Nil, Missing} /\ Kind(v) = "Bool" ->
         ParseBool(value).ok /\ v = BoolValue(ParseBool(value).b)
    [] OTHER -> FALSE

IsScalar(v) == v \notin {Nil, Missing} /\ Kind(v) \in {"String", "Float64", "Bool"} \cup IntKinds

\* the path grammar of the key strings: an optional leading '.', a name or a
\* bracketed run of digits, then '.name' and '[digits]' segments
RECURSIVE Segments(_)
Segments(s) ==
  IF s = <<>> THEN TRUE
  ELSE IF s[1] = "." THEN
    Len(s) >= 2 /\ IsLetter(s[2]) /\ Segments(Drop(s, 1 + AlnumRunLen(Tail(s))))
  ELSE IF s[1] = "[" THEN
    LET n == DigitRunLen(Tail(s))
    IN n >= 1 /\ Len(s) >= n + 2 /\ s[n + 2] = "]" /\ Segments(Drop(s, n + 2))
  ELSE FALSE

WellFormed(s) ==
  /\ s # <<>>
  /\ IF IsLetter(s[1]) THEN Segments(<<".">> \o s) ELSE Segments(s)

\* ------------------------------------------------------------------------
\* The claims
\* ------------------------------------------------------------------------

\* the caller began with an empty map[string]interface{}
RootWasEmpty == rootName \in {"empty", "cli"}

\* the root's mapping as a tree
RootMapTree(h) == Tree(RefValue("mapIface", RootMapRef(h)), h)

IsFieldPath(k) == k # <<>> /\ \A i \in 1..Len(k) : k[i].tag = "field"

SameStep(a, b) ==
  a.tag = b.tag /\ a.index = b.index /\ ToLower(a.field) = ToLower(b.field)

\* two paths that share their first step and part ways later on
Diverging(k1, k2) ==
  /\ k1 # <<>> /\ k2 # <<>> /\ SameStep(k1[1], k2[1])
  /\ \E i \in 2..Len(k1) : i <= Len(k2) /\ ~SameStep(k1[i], k2[i])

\* C1: a FieldStep that finds its key hands the successor a copy carrying the
\* bound value's contents, so for successful applies to an initially empty
\* mapping a value written at p1 is still there after a later apply to a
\* different path p2 that shares a prefix with p1 (a.x=1 then a.y=2 gives
\* {a: {x: 1, y: 2}}).
C1_EarlierWriteKept ==
  \A i, j \in 1..Len(log) :
    (/\ RootWasEmpty /\ i < j /\ j = Len(log)
     /\ \A n \in 1..j : log[n].st = "ok"
     /\ Diverging(parseKey(log[i].keystr).key, parseKey(log[j].keystr).key))
    => Lookup(root, heap, parseKey(log[i].keystr).key) = StringValue(log[i].value)

\* C2: on an empty dynamic mapping every well-formed path that starts with a
\* FieldStep succeeds (k1[0].k2=foo yields {k1: [{k2: "foo"}]}), and the
\* terminal holds the string.
C2_EmptyRootPathSucceeds ==
  (/\ RootWasEmpty /\ Len(log) = 1
   /\ parseKey(Last.keystr).ok /\ LastKey[1].tag = "field")
  => (Last.st = "ok" /\ Lookup(root, heap, LastKey) = StringValue(Last.value))

RECURSIVE NestedMapping(_, _)
\* {f1: {f2: ... {fn: v}}}
NestedMapping(k, v) ==
  IF k = <<>> THEN StringValue(v)
  ELSE [t |-> "mapIface", isnil |-> FALSE,
        m |-> (k[1].field :> [t |-> "iface", dyn |-> NestedMapping(Tail(k), v)])]

\* C3: a path made only of FieldSteps f1.f2...fn applied with value v to an
\* empty dynamic mapping succeeds and yields exactly {f1: {f2: ... {fn: v}}},
\* every level a dynamic mapping with the one key spelled as in the path.
C3_FieldPathNests ==
  (RootWasEmpty /\ Len(log) = 1 /\ parseKey(Last.keystr).ok /\ IsFieldPath(LastKey))
  => (Last.st = "ok" /\ RootMapTree(heap) = NestedMapping(LastKey, Last.value))

\* C3 happens: f1.f1.v1=foo on the empty mapping
C3_Witness ==
  /\ rootName = "empty" /\ Len(log) = 1 /\ Last.st = "ok"
  /\ LastKey = <<FieldStep(<<"f","1">>), FieldStep(<<"f","1">>), FieldStep(<<"v","1">>)>>
  /\ Lookup(root, heap, LastKey) = StringValue(<<"f","o","o">>)

\* the last call's path is a FieldStep, then an IndexStep, and before the call
\* the FieldStep led to a sequence of the given kind
LastIndexes(kind) ==
  /\ Called /\ parseKey(Last.keystr).ok /\ Len(LastKey) >= 2
  /\ LastKey[1].tag = "field" /\ LastKey[2].tag = "index"
  /\ Lookup(root, pre, Take(LastKey, 1)) # Missing
  /\ Lookup(root, pre, Take(LastKey, 1)) # Nil
  /\ Kind(Lookup(root, pre, Take(LastKey, 1))) = kind

\* the elements of the sequence the last call's FieldStep leads to, as trees
SeqBefore == Tree(Lookup(root, pre, Take(LastKey, 1)), pre).elems
SeqAfter == Tree(Lookup(root, heap, Take(LastKey, 1)), heap).elems
ZeroElem(h) == Tree(Zero(Types[Lookup(root, h, Take(LastKey, 1)).t].elem), h)

\* C4: an IndexStep i on a growable sequence of length n leaves it with length
\* max(n, i+1); every position j < n other than i keeps its value, every new
\* position n <= j < i holds the element type's zero value, and position i is
\* the one the successor wrote.
C4_SequenceGrowth ==
  (LastIndexes("Slice") /\ Last.st = "ok") =>
    LET i == LastKey[2].index
        n == Len(SeqBefore)
    IN /\ Len(SeqAfter) = (IF n > i + 1 THEN n ELSE i + 1)
       /\ \A j \in 0..(n - 1) : j # i => SeqAfter[j + 1] = SeqBefore[j + 1]
       /\ \A j \in n..(i - 1) : SeqAfter[j + 1] = ZeroElem(heap)
       /\ Len(LastKey) = 2 => Holds(Lookup(root, heap, LastKey), Last.value)

\* C4 happens: vs[3]=foo on &WT3{Vs: ["x", "y"]} gives ["x", "y", "", "foo"]
C4_Witness ==
  /\ rootName = "wt3" /\ Len(log) = 1 /\ Last.st = "ok"
  /\ LastKey = <<FieldStep(<<"v","s">>), IndexStep(3)>>
  /\ SeqAfter = <<StringValue(<<"x">>), StringValue(<<"y">>), StringValue(<<>>),
                  StringValue(<<"f","o","o">>)>>

\* the last call's path starts with a FieldStep on the root's dynamic mapping
LastFieldOnRootMap ==
  Called /\ RootIsMap /\ parseKey(Last.keystr).ok /\ LastKey[1].tag = "field"

\* the keys of the root's mapping that equal the FieldStep's name ignoring case
SameIgnoringCase(h) == {x \in DOMAIN RootMap(h) : ToLower(x) = ToLower(LastKey[1].field)}

\* key x of the root's mapping is bound to the same tree before and after
BindingKept(x) == Tree(RootMap(heap)[x], heap) = Tree(RootMap(pre)[x], pre)

\* C5: a successful FieldStep on a dynamic mapping resolves its name ignoring
\* case.  If an existing key equals the name ignoring case, one such key is
\* rebound, spelled as stored, and the key set is unchanged; if none does,
\* exactly one key is added, spelled as in the path; all other bindings are
\* unchanged.
C5_CaseInsensitiveKey ==
  (LastFieldOnRootMap /\ Last.st = "ok") =>
    IF SameIgnoringCase(pre) # {}
      THEN /\ DOMAIN RootMap(heap) = DOMAIN RootMap(pre)
           /\ \E mk \in SameIgnoringCase(pre) :
                \A x \in DOMAIN RootMap(pre) \ {mk} : BindingKept(x)
      ELSE /\ DOMAIN RootMap(heap) = DOMAIN RootMap(pre) \cup {LastKey[1].field}
           /\ \A x \in DOMAIN RootMap(pre) : BindingKept(x)

\* C5 happens: v1=7 on the decoded document rebinds the key stored as "V1"
C5_Witness ==
  /\ rootName = "decoded" /\ Len(log) = 1 /\ Last.st = "ok"
  /\ Last.keystr = <<"v","1">>
  /\ DOMAIN RootMap(heap) = {nF1, nV1, nVs}
  /\ RootMap(heap)[nV1] = IfaceValue(FloatValue(7, 0))

\* the heap object a map value refers to directly: a slice's backing array, a
\* map, a pointer's target; 0 for a value held in the interface itself
RefOf(v) ==
  LET u == IF v # Nil /\ Kind(v) = "Interface" THEN v.dyn ELSE v
  IN IF u # Nil /\ Kind(u) \in {"Map", "Slice", "Ptr"} THEN u.ref ELSE 0

\* C6: copy-on-write for mapping-held values.  When a FieldStep finds its key
\* in a dynamic mapping, after a successful apply the key is bound to the
\* mutated value (the rest of the path leads to the value written), and the
\* object bound to the key before the call (the backing storage of the
\* sequence, the map, the pointer's target) is itself unmodified.
C6_CopyOnWrite ==
  (LastFieldOnRootMap /\ Last.st = "ok" /\ SameIgnoringCase(pre) # {}) =>
    /\ \E mk \in SameIgnoringCase(pre) :
         Holds(Lookup(RootMap(heap)[mk], heap, Tail(LastKey)), Last.value)
    /\ \A mk \in SameIgnoringCase(pre) :
         LET a == RefOf(RootMap(pre)[mk])
         IN a # 0 => heap[a] = pre[a]

\* C6 happens: vs[0]=7 on the decoded document; the key is bound to a sequence
\* in a new backing array, the old one still holds 1.5
C6_Witness ==
  /\ rootName = "decoded" /\ Len(log) = 1 /\ Last.st = "ok"
  /\ Last.keystr = <<"v","s","[","0","]">> /\ Last.value = <<"7">>
  /\ RefOf(RootMap(heap)[nVs]) # RefOf(RootMap(pre)[nVs])
  /\ heap[RefOf(RootMap(pre)[nVs])].elems[1] = IfaceValue(FloatValue(15, 1))
  /\ heap[RefOf(RootMap(heap)[nVs])].elems[1] = IfaceValue(StringValue(<<"7">>))

\* C7: an IndexStep i >= n on a fixed-length array of length n fails with the
\* index-out-of-range error and changes nothing; on a growable sequence of
\* length n it never fails for that reason: with a Terminal next it succeeds,
\* and whenever the apply succeeds the sequence has length i+1.
C7_ArrayBound ==
  /\ (LastIndexes("Array") /\ LastKey[2].index >= Len(SeqBefore)) =>
       /\ Last.st = "err" /\ Last.msg = "array index too large"
       /\ Tree(root, heap) = Tree(root, pre)
  /\ (LastIndexes("Slice") /\ LastKey[2].index >= Len(SeqBefore)) =>
       /\ Last.msg # "array index too large"
       /\ Len(LastKey) = 2 => Last.st = "ok"
       /\ Last.st = "ok" => Len(SeqAfter) = LastKey[2].index + 1

\* C7 happens: vs[3]=foo on &WA{Vs: [2]string{"x", "y"}}
C7_Witness ==
  /\ rootName = "wa" /\ Len(log) = 1
  /\ LastKey = <<FieldStep(<<"v","s">>), IndexStep(3)>>
  /\ Last.st = "err" /\ Last.msg = "array index too large"
  /\ heap = pre

\* C8: applying the same (path, value) pair twice in succession gives the same
\* tree and the same outcome as applying it once, also when the mapping holds
\* keys that differ only in letter case.
C8_Idempotent ==
  (/\ Len(log) >= 2
   /\ log[Len(log)].keystr = log[Len(log) - 1].keystr
   /\ log[Len(log)].value = log[Len(log) - 1].value)
  => (/\ log[Len(log)].st = log[Len(log) - 1].st
      /\ Tree(root, heap) = Tree(root, pre))

\* C10: a terminal step that lands on a position already holding a scalar of
\* a concrete type coerces the new string to that type, whether the value is
\* bound to a mapping key, is an element of a sequence of dynamic values or
\* sits in a dynamic member of a record.
C10_CoercedToExistingType ==
  (Called /\ Last.st = "ok" /\ parseKey(Last.keystr).ok
   /\ IsScalar(Lookup(root, pre, LastKey)))
  => Lookup(root, heap, LastKey).t = Lookup(root, pre, LastKey).t

RECURSIVE IndicesFit(_)
\* whether every bracketed index of a well-formed path is at most the largest int
IndicesFit(s) ==
  IF s = <<>> THEN TRUE
  ELSE IF s[1] = "[" THEN
    LET n == DigitRunLen(Tail(s))
    IN InRange(SubSeq(s, 2, n + 1), MaxInt64Digits) /\ IndicesFit(Drop(s, n + 1))
  ELSE IndicesFit(Tail(s))

\* C9 as claimed: round-trip rendering.  Every well-formed path compiles; the
\* rendered string of the chain is a well-formed path, and compiling it gives
\* a chain with the same FieldSteps (same names) and IndexSteps (same indices).
C9_RoundTripEveryPath ==
  /\ (pc # "input" /\ WellFormed(keystr)) => parsed.ok
  /\ pc \in {"reparse", "done"} => WellFormed(rendered)
  /\ pc = "done" => (reparsed.ok /\ reparsed.key = parsed.key)

\* C9 as amended: every well-formed path whose indices fit the int type
\* compiles (a larger index is a range error of strconv.Atoi); the rendered
\* string of a compiled chain is a well-formed path, and compiling it gives a
\* chain with the same FieldSteps (same names) and IndexSteps (same indices).
C9_RoundTrip ==
  /\ (pc # "input" /\ WellFormed(keystr) /\ IndicesFit(keystr)) => parsed.ok
  /\ (pc # "input" /\ WellFormed(keystr) /\ ~IndicesFit(keystr)) =>
       (~parsed.ok /\ parsed.msg = "strconv")
  /\ pc \in {"reparse", "done"} => (WellFormed(rendered) /\ IndicesFit(rendered))
  /\ pc = "done" => (reparsed.ok /\ reparsed.key = parsed.key)

\* C9 happens: "[01].x", an IndexStep written with a leading zero and followed
\* by a FieldStep, is rendered as "[1].x" and compiled again
C9_Witness ==
  /\ pc = "done"
  /\ keystr = <<"[","0","1","]",".","x">>
  /\ rendered = <<"[","1","]",".","x">>
  /\ reparsed.key = <<IndexStep(1), FieldStep(<<"x">>)>>

\* ------------------------------------------------------------------------
\* parseKey against the path grammar
\* ------------------------------------------------------------------------

RECURSIVE Tokens(_)
\* the tokens of a run of '.name' and '[digits]' segments, left to right: a
\* FieldStep per name, an IndexStep per bracketed number
Tokens(s) ==
  IF s = <<>> THEN <<>>
  ELSE IF s[1] = "." THEN
    LET n == AlnumRunLen(Tail(s))
    IN <<FieldStep(SubSeq(s, 2, n + 1))>> \o Tokens(Drop(s, n + 1))
  ELSE
    LET n == DigitRunLen(Tail(s))
    IN <<IndexStep(DecimalValue(SubSeq(s, 2, n + 1)))>> \o Tokens(Drop(s, n + 2))

\* the tokens of a well-formed path (the first name may come without its '.')
TokensOf(s) == Tokens(IF IsLetter(s[1]) THEN <<".">> \o s ELSE s)

\* C11 as claimed: parseKey accepts exactly the strings of the path grammar and
\* returns one FieldStep or IndexStep per token, in order, ended by the
\* Terminal; for every other string it returns an error and no chain.
C11_AcceptsExactlyGrammar ==
  pc # "input" =>
    /\ parsed.ok <=> WellFormed(keystr)
    /\ parsed.ok => parsed.key = TokensOf(keystr)
    /\ ~parsed.ok => parsed.key = <<>>

\* C11 as amended: parseKey accepts exactly the strings of the path grammar
\* whose bracketed numbers fit the int type, and returns one FieldStep or
\* IndexStep per token, in order, ended by the Terminal; for every other
\* string it returns an error and no chain: the integer conversion's range
\* error for a grammatical path with a larger number, "invalid key" for a
\* string outside the grammar holding no such number.
C11_ParseKeyGrammar ==
  pc # "input" =>
    /\ parsed.ok <=> (WellFormed(keystr) /\ IndicesFit(keystr))
    /\ parsed.ok => (parsed.key = TokensOf(keystr) /\ Len(parsed.key) >= 1)
    /\ ~parsed.ok => parsed.key = <<>>
    /\ (WellFormed(keystr) /\ ~IndicesFit(keystr)) => parsed.msg = "strconv"
    /\ (~WellFormed(keystr) /\ IndicesFit(keystr)) => parsed.msg = "invalid key"

\* C11 happens: ".x[1]" compiles to a FieldStep x and an IndexStep 1
C11_Witness ==
  /\ pc = "render"
  /\ keystr = <<".","x","[","1","]">>
  /\ parsed = Parsed(<<FieldStep(<<"x">>), IndexStep(1)>>)

\* ------------------------------------------------------------------------
\* Failures and aborts
\* ------------------------------------------------------------------------

\* the key chains of the calls that compile and start with a FieldStep
FieldChains ==
  {parseKey(p).key : p \in {q \in Paths : parseKey(q).ok /\ parseKey(q).key[1].tag = "field"}}

\* whether struct type t declares a member named name, ignoring case
Declares(t, name) ==
  \E i \in 1..Len(Types[t].fields) : ToLower(Types[t].fields[i].name) = ToLower(name)

\* the records pointers refer to in heap h
RecordCells(h) == {i \in 1..Len(h) : h[i].kind = "cell" /\ Kind(h[i].val) = "Struct"}

\* the root is a pointer to a record
RootIsRecord == Kind(root) = "Ptr" /\ root.ref \in RecordCells(pre)

\* the last call's first step names no member of the root's record
LastNamesNoMember ==
  /\ Called /\ RootIsRecord /\ parseKey(Last.keystr).ok
  /\ LastKey[1].tag = "field" /\ ~Declares(pre[root.ref].val.t, LastKey[1].field)

\* C12 as claimed: a FieldStep whose name matches none of the declared members
\* of a fixed-schema record fails with the no-such-field error, and the record
\* and the rest of the tree are as they were before the call.
C12_NoFieldTreeUnchanged ==
  (Called /\ Last.msg = "no field") =>
    (Last.st = "err" /\ Tree(root, heap) = Tree(root, pre))

\* C12 as amended: a FieldStep whose name matches none of the declared members
\* of a fixed-schema record fails with the no-such-field error and the step
\* itself changes nothing, neither the record nor the heap; when the record is
\* the root's the whole tree is as before the call.  (What earlier steps of the
\* walk changed, an absent indirection allocated or a sequence grown, stays.)
C12_NoSuchField ==
  /\ LastNamesNoMember =>
       /\ Last.st = "err" /\ Last.msg = "no field"
       /\ Tree(root, heap) = Tree(root, pre)
  /\ (Called /\ Last.msg = "no field") => Last.st = "err"
  /\ \A i \in RecordCells(heap), k \in FieldChains, value \in Values :
       ~Declares(heap[i].val.t, k[1].field) =>
         fieldKeyApply(k, heap[i].val, TRUE, value, heap)
           = {Err("no field", heap[i].val, heap)}

\* C12 happens: v1=foo on &WT3{Vs: ["x", "y"]}, which declares no V1
C12_Witness ==
  /\ rootName = "wt3" /\ Len(log) = 1
  /\ LastKey = <<FieldStep(<<"v","1">>)>>
  /\ Last.st = "err" /\ Last.msg = "no field"
  /\ heap = pre

\* C13: for every root, well-formed path and value, an apply call ends in
\* success or in an error returned to the caller, never in an abnormal abort.
C13_NeverAborts ==
  (Called /\ parseKey(Last.keystr).ok) => Last.st \in {"ok", "err"}

\* C14: a terminal write onto a signed integer slot of any width either
\* succeeds and leaves the slot holding exactly the integer the base-10 text
\* denotes, or fails with a parse error and leaves the slot unchanged; a number
\* that does not fit the slot's width is a failure, not a wrapped value.
C14_IntegerExact ==
  (/\ Called /\ parseKey(Last.keystr).ok
   /\ IsScalar(Lookup(root, pre, LastKey))
   /\ Kind(Lookup(root, pre, LastKey)) \in IntKinds)
  => LET old == Lookup(root, pre, LastKey)
         new == Lookup(root, heap, LastKey)
         ivalue == ParseInt(Last.value)
     IN \/ Last.st = "ok" /\ ivalue.ok /\ new = IntValue(old.t, ivalue.n)
        \/ Last.st = "err" /\ Last.msg = "strconv" /\ new = old

\* the member of the root's record the last call's first step names, before
\* and after the call
MemberIndex ==
  CHOOSE i \in 1..Len(Types[pre[root.ref].val.t].fields) :
    ToLower(Types[pre[root.ref].val.t].fields[i].name) = ToLower(LastKey[1].field)
MemberBefore == pre[root.ref].val.f[MemberIndex]
MemberAfter == heap[root.ref].val.f[MemberIndex]

\* the last call's first step leads to a member of the root's record that is an
\* absent indirection, and more steps follow
LastThroughAbsentIndirection ==
  /\ Called /\ RootIsRecord /\ parseKey(Last.keystr).ok /\ Len(LastKey) >= 2
  /\ LastKey[1].tag = "field" /\ Declares(pre[root.ref].val.t, LastKey[1].field)
  /\ Kind(MemberBefore) = "Ptr" /\ MemberBefore.ref = 0

\* C15: a step that reaches an absent Indirection allocates a fresh zero-valued
\* target of the declared type and continues on it: a FieldStep reaching an
\* indirection to a record leaves the member allocated, an IndexStep reaching
\* an indirection to a growable sequence proceeds into the sequence (with a
\* Terminal next it writes the element), and after a successful apply through
\* it the member is not absent.
C15_AbsentIndirectionAllocated ==
  LastThroughAbsentIndirection =>
    LET target == Types[Types[MemberBefore.t].elem].kind
    IN /\ Last.st = "ok" => MemberAfter.ref # 0
       /\ (LastKey[2].tag = "field" /\ target = "Struct") => MemberAfter.ref # 0
       /\ (LastKey[2].tag = "index" /\ target = "Slice") =>
            /\ MemberAfter.ref # 0
            /\ Last.msg # "expected slice or array"
            /\ Len(LastKey) = 2 =>
                 (Last.st = "ok" /\ Holds(Lookup(root, heap, LastKey), Last.value))

RECURSIVE HoldsIndirection(_, _)
\* whether a pointer lies somewhere in the tree of v
HoldsIndirection(v, h) ==
  IF v = Nil THEN FALSE
  ELSE CASE Kind(v) = "Ptr" -> TRUE
         [] Kind(v) = "Interface" -> HoldsIndirection(v.dyn, h)
         [] Kind(v) = "Map" ->
              v.ref # 0 /\ \E x \in DOMAIN h[v.ref].m : HoldsIndirection(h[v.ref].m[x], h)
         [] Kind(v) = "Slice" ->
              \E i \in 1..v.len : HoldsIndirection(h[v.ref].elems[i], h)
         [] Kind(v) = "Array" -> \E i \in 1..Len(v.elems) : HoldsIndirection(v.elems[i], h)
         [] Kind(v) = "Struct" -> \E i \in 1..Len(v.f) : HoldsIndirection(v.f[i], h)
         [] OTHER -> FALSE

\* the last call's first step was a FieldStep on the root's mapping and the
\* call returned an error
LastFailedBelowRootMap == LastFieldOnRootMap /\ Last.st = "err"

\* C16 as claimed: when the successor chain of a FieldStep on an allocated
\* dynamic mapping returns an error, the mapping has exactly the same keys
\* bound to exactly the same values as before the call, all the way down.
C16_FailureLeavesMappingTree ==
  LastFailedBelowRootMap => RootMapTree(heap) = RootMapTree(pre)

\* C16 as amended: when the successor chain of a FieldStep on an allocated
\* dynamic mapping returns an error, the mapping has the same keys bound to the
\* same values as before the call, and the storage of a sequence bound to a key
\* holds the same elements; with no Indirection below the mapping its whole
\* tree is as before.  (What an Indirection held in a bound sequence refers to
\* is shared with the detached copy and may have been changed.)
C16_FailureLeavesMapping ==
  LastFailedBelowRootMap =>
    /\ RootMapRef(heap) = RootMapRef(pre)
    /\ RootMap(heap) = RootMap(pre)
    /\ \A x \in DOMAIN RootMap(pre) :
         LET a == RefOf(RootMap(pre)[x])
         IN (a # 0 /\ Kind(RootMap(pre)[x].dyn) = "Slice") => heap[a] = pre[a]
    /\ ~HoldsIndirection(RefValue("mapIface", RootMapRef(pre)), pre)
         => RootMapTree(heap) = RootMapTree(pre)

\* C16 happens: vs[0].v1=foo on the decoded document fails on the number in
\* Vs[0] after Vs was copied, and the mapping still binds Vs to the old sequence
C16_Witness ==
  /\ rootName = "decoded" /\ Len(log) = 1
  /\ LastKey = <<FieldStep(<<"v","s">>), IndexStep(0), FieldStep(<<"v","1">>)>>
  /\ Last.st = "err" /\ Last.msg = "expected map or struct"
  /\ Len(heap) > Len(pre)
  /\ RootMap(heap) = RootMap(pre)

====
